---- MODULE Spec2Model ----
(***************************************************************************)
(* Model of disaster_model.py, a Streamlit script.  Streamlit re-executes  *)
(* the script top to bottom on every user interaction; what survives a run *)
(* is the st.cache_resource cache, the two files on disk and the widget    *)
(* values.  One script run is a sequence of steps (pc); a step that calls  *)
(* out of the script (joblib, the model, folium, the file system) has one  *)
(* outcome per result that call can produce.                               *)
(*                                                                         *)
(* Numbers with a decimal point are kept in fixed point:                   *)
(*   urban_level in hundredths (0.5 is 50), latitude and longitude in      *)
(*   tenths (22.5 is 225), risk_index in thousandths (1502.6 is 1502600),  *)
(*   the weights 0.5, 0.3, 0.2 in tenths, fill_opacity 0.3 in tenths.      *)
(***************************************************************************)
EXTENDS Integers, Sequences, FiniteSets, TLC

VARIABLES
    modelFile,       \* disk: "disaster_model.pkl": "absent" | "valid" | "corrupt"
    mapFile,         \* disk: "disaster_risk_map.html": [exists, html]
    cache,           \* st.cache_resource entry of load_model: "empty" | "none" | "model"
    pc,              \* position of the script run; "Idle" between runs
    submitted,       \* st.form_submit_button
    disaster_score, pop_density, urban_level, houses_affected, deaths,
    latitude, longitude,                       \* widget values
    risk_index, damage_scale, input_features,  \* script variables
    prediction,      \* <<>> before line 67 assigns it, <<label>> after
    map_object,      \* <<>> before line 76 assigns it, <<map>> after
    exc,             \* <<>> or <<message>>: the exception raised in the try block
    screen,          \* the elements the latest run has drawn, in order
    outcome,         \* of the latest run: "None" | "Succeeded" (the try block ran to
                     \* its end) | "Failed" (the except block ran)
    unhandled,       \* the latest run ended with an exception the script did not catch
    predictLog,      \* the arguments of this run's model.predict calls, in order
    predictOut,      \* what this run's model.predict calls returned or raised
    saves,           \* how many times this run called map_object.save
    notFound,        \* "Model file not found" has been shown in this process
    everPredictionError, \* model.predict has raised in some run of this process
    fileOwner        \* how the run that last wrote the map file ended: "None" (never
                     \* written) | "Pending" (that run is in progress) | "Succeeded" | "Failed"

vars == <<modelFile, mapFile, cache, pc, submitted, disaster_score, pop_density,
          urban_level, houses_affected, deaths, latitude, longitude, risk_index,
          damage_scale, input_features, prediction, map_object, exc, screen,
          outcome, unhandled, predictLog, predictOut, saves, notFound,
          everPredictionError, fileOwner>>

widgets == <<disaster_score, pop_density, urban_level, houses_affected, deaths,
             latitude, longitude>>

\* The variables of the script; they live for one run.
locals == <<submitted, risk_index, damage_scale, input_features, prediction,
            map_object, exc>>

\* What is recorded about the run in progress.
runLog == <<predictLog, predictOut, saves>>

disk == <<modelFile, mapFile, cache>>

----
\* Bounds of the model and the values its inputs are drawn from.

\* The longest label array the opaque model returns for the one row it is given.
MaxOut == 2

\* The labels the opaque model may return (an open set of strings).
Labels == {"High", "Medium", "Low", "Unknown"}

\* The messages of the exceptions model.predict may raise.
PredictErrors == {"shape mismatch", "unsupported feature type"}

\* The widget values: the defaults, every minimum, every maximum, and a
\* location that coincides with a high-risk state.
DefaultInput ==
    [disaster_score |-> 5, pop_density |-> 5000, urban_level |-> 50,
     houses_affected |-> 100, deaths |-> 10, latitude |-> 225, longitude |-> 789]

SampleInputs ==
    { DefaultInput,
      [disaster_score |-> 0, pop_density |-> 0, urban_level |-> 0,
       houses_affected |-> 0, deaths |-> 0, latitude |-> 50, longitude |-> 650],
      [disaster_score |-> 10, pop_density |-> 20000, urban_level |-> 100,
       houses_affected |-> 10000, deaths |-> 1000, latitude |-> 400, longitude |-> 1000],
      [disaster_score |-> 7, pop_density |-> 300, urban_level |-> 5,
       houses_affected |-> 10, deaths |-> 1, latitude |-> 259, longitude |-> 851] }

\* The grid the feature formulas are checked on: minimum, default and maximum
\* of every field.
GridInputs ==
    [disaster_score : {0, 5, 10}, pop_density : {0, 5000, 20000},
     urban_level : {0, 50, 100}, houses_affected : {0, 100, 10000},
     deaths : {0, 10, 1000}, latitude : {50, 225, 400},
     longitude : {650, 789, 1000}]

----
\* Pure parts of the script.

\* RiskIndex with the result cut to a whole number, as int() would.
RiskIndexTruncated(ds, pd, ul) == ((ds * 5 * 100 + pd * 3 * 100 + ul * 2) \div 1000) * 1000

\* Line 58, in thousandths: disaster_score * 0.5 + pop_density * 0.3 + urban_level * 0.2.
RiskIndex(ds, pd, ul) == ds * 5 * 100 + pd * 3 * 100 + ul * 2

\* Line 59.
DamageScale(ha, d) == ha + (d * 10)

\* InputFeatures with the two derived columns in the other order.
InputFeaturesSwapped(ds, pd, ul, ha, d, ri, dsc) == << <<ds, pd, ul, ha, d, dsc, ri>> >>

\* Lines 61-64: one row, seven columns.
InputFeatures(ds, pd, ul, ha, d, ri, dsc) == << <<ds, pd, ul, ha, d, ri, dsc>> >>

\* IconColor without the "Medium" branch.
IconColorTwoWay(p) == IF p = "High" THEN "red" ELSE "green"

\* Line 87.
IconColor(p) == IF p = "High" THEN "red" ELSE IF p = "Medium" THEN "orange" ELSE "green"

\* Line 85: the f-string formats the integer damage_scale as its decimal digits.
RECURSIVE FormatInt(_)
FormatInt(n) == IF n < 10 THEN <<n>> ELSE Append(FormatInt(n \div 10), n % 10)

\* Line 85: the popup's text.
PopupText(p, dsc) == <<"Risk Level:", p, "Damage Scale:", FormatInt(dsc)>>

\* Lines 93-99, in insertion order.
HighRiskStates ==
    << [state |-> "Bihar",       coords |-> <<259, 851>>],
       [state |-> "Assam",       coords |-> <<262, 917>>],
       [state |-> "Odisha",      coords |-> <<209, 851>>],
       [state |-> "Uttarakhand", coords |-> <<301, 793>>],
       [state |-> "Tamil Nadu",  coords |-> <<111, 787>>] >>

\* Lines 102-108.
Circle(r) ==
    [location |-> r.coords, radius |-> 50000, color |-> "red", fill |-> TRUE,
     fill_opacity |-> 3, popup |-> <<"High Risk Area:", r.state>>]

\* Lines 83-90.
Marker(lat, lon, p, dsc) ==
    [location |-> <<lat, lon>>, popup |-> PopupText(p, dsc),
     icon |-> [color |-> IconColor(p), icon |-> "info-sign"]]

\* RenderMap drawing the overlays only for a "High" prediction.
RenderMapOverlaysIfHigh(lat, lon, p, dsc) ==
    [location |-> <<lat, lon>>, zoom_start |-> 6, tiles |-> "CartoDB dark_matter",
     markers |-> << Marker(lat, lon, p, dsc) >>,
     circles |-> IF p = "High"
                    THEN [i \in 1..Len(HighRiskStates) |-> Circle(HighRiskStates[i])]
                    ELSE <<>>]

\* Lines 76-109: the map, its marker and the circles of the loop.
RenderMap(lat, lon, p, dsc) ==
    [location |-> <<lat, lon>>, zoom_start |-> 6, tiles |-> "CartoDB dark_matter",
     markers |-> << Marker(lat, lon, p, dsc) >>,
     circles |-> [i \in 1..Len(HighRiskStates) |-> Circle(HighRiskStates[i])]]

\* Screen elements.
Drawn(kind, text, content) == [kind |-> kind, text |-> text, content |-> content]

Shows(kind) == \E i \in 1..Len(screen) : screen[i].kind = kind

NoFile == [exists |-> FALSE, html |-> <<>>]

----
\* The calls out of the script and what each can produce.

\* load_model with a None result left out of the cache.
load_model_none_uncached(c, f) ==
    IF c # "empty" THEN [ret |-> c, cache |-> c]
    ELSE IF f = "absent" THEN [ret |-> "none", cache |-> "empty"]
    ELSE IF f = "valid" THEN [ret |-> "model", cache |-> "model"]
    ELSE [ret |-> "raise", cache |-> "empty"]

\* Lines 20-26 under @st.cache_resource: the body runs only on a cache miss, and
\* whatever it returns (None included) is cached; a raise caches nothing.
load_model(c, f) ==
    IF c # "empty" THEN [ret |-> c, cache |-> c]
    ELSE IF f = "absent" THEN [ret |-> "none", cache |-> "none"]
    ELSE IF f = "valid" THEN [ret |-> "model", cache |-> "model"]
    ELSE [ret |-> "raise", cache |-> "empty"]

\* model.predict on the opaque artifact: it raises, or returns an array of labels.
PredictResults ==
    {[raised |-> TRUE, msg |-> m, labels |-> <<>>] : m \in PredictErrors}
    \cup {[raised |-> FALSE, msg |-> "", labels |-> l] :
            l \in UNION {[1..n -> Labels] : n \in 0..MaxOut}}

\* Line 67: the subscript [0].
FirstOf(labels) == labels[1]

\* Line 113: folium opens the file for writing (truncating it), renders, writes.
SaveResults == {"written", "open failed", "write failed"}

\* SavedFile that never replaces a file already there (exclusive create).
SavedFileExclusive(old, m, res) ==
    IF old.exists THEN old
    ELSE IF res = "written" THEN [exists |-> TRUE, html |-> <<m>>]
    ELSE IF res = "write failed" THEN [exists |-> TRUE, html |-> <<>>]
    ELSE old

\* Line 113: the file a save leaves behind.
SavedFile(old, m, res) ==
    IF res = "written" THEN [exists |-> TRUE, html |-> <<m>>]
    ELSE IF res = "write failed" THEN [exists |-> TRUE, html |-> <<>>]
    ELSE old

----
\* The script, step by step.

\* The end of a run: the script's variables are gone, the page stays.
EndRun ==
    /\ pc' = "Idle"
    /\ submitted' = FALSE
    /\ risk_index' = 0
    /\ damage_scale' = 0
    /\ input_features' = <<>>
    /\ prediction' = <<>>
    /\ map_object' = <<>>
    /\ exc' = <<>>
    /\ predictLog' = <<>>
    /\ predictOut' = <<>>
    /\ saves' = 0

\* Lines 12-32: a rerun clears the page; then the title, load_model(), and
\* st.error + st.stop() when it returned None.
LoadModel ==
    /\ pc = "Idle"
    /\ outcome' = "None"
    /\ LET r == load_model(cache, modelFile)
           page == << Drawn("title", <<"Disaster-Prone Area Classification App">>, <<>>) >>
       IN  /\ cache' = r.cache
           /\ IF r.ret = "raise"
                 THEN /\ unhandled' = TRUE
                      /\ screen' = page
                      /\ pc' = "Idle"
                      /\ UNCHANGED notFound
              ELSE IF r.ret = "none"
                 THEN /\ unhandled' = FALSE
                      /\ screen' = Append(page, Drawn("error", <<"Model file not found">>, <<>>))
                      /\ notFound' = TRUE
                      /\ pc' = "Idle"
              ELSE /\ unhandled' = FALSE
                   /\ screen' = page
                   /\ pc' = "Form"
                   /\ UNCHANGED notFound
    /\ UNCHANGED <<modelFile, mapFile, widgets, locals, runLog, everPredictionError,
                   fileOwner>>

\* Lines 37-51: the form.  Its widgets take new values only with a submit; without
\* one the script ends at line 56.
InputForm ==
    /\ pc = "Form"
    /\ screen' = Append(screen, Drawn("form", <<"Enter Region Data">>, <<>>))
    /\ \E sub \in BOOLEAN, inp \in SampleInputs :
          IF sub
             THEN /\ submitted' = TRUE
                  /\ disaster_score' = inp.disaster_score
                  /\ pop_density' = inp.pop_density
                  /\ urban_level' = inp.urban_level
                  /\ houses_affected' = inp.houses_affected
                  /\ deaths' = inp.deaths
                  /\ latitude' = inp.latitude
                  /\ longitude' = inp.longitude
                  /\ pc' = "Features"
                  /\ UNCHANGED <<risk_index, damage_scale, input_features, prediction,
                                 map_object, exc, runLog>>
             ELSE /\ EndRun
                  /\ UNCHANGED widgets
    /\ UNCHANGED <<disk, outcome, unhandled, notFound, everPredictionError, fileOwner>>

\* Lines 56-64.
FeatureEngineering ==
    /\ pc = "Features"
    /\ submitted
    /\ risk_index' = RiskIndex(disaster_score, pop_density, urban_level)
    /\ damage_scale' = DamageScale(houses_affected, deaths)
    /\ input_features' =
          InputFeatures(disaster_score, pop_density, urban_level, houses_affected,
                        deaths, risk_index', damage_scale')
    /\ pc' = "Predict"
    /\ UNCHANGED <<disk, submitted, widgets, prediction, map_object, exc, screen,
                   outcome, unhandled, runLog, notFound, everPredictionError, fileOwner>>

\* Lines 66-68: model.predict(input_features)[0], then st.success.
Predict ==
    /\ pc = "Predict"
    /\ predictLog' = Append(predictLog, input_features)
    /\ \E res \in PredictResults :
          /\ predictOut' = Append(predictOut, res)
          /\ IF res.raised
                THEN /\ exc' = <<res.msg>>
                     /\ everPredictionError' = TRUE
                     /\ pc' = "Except"
                     /\ UNCHANGED <<prediction, screen>>
             ELSE IF res.labels = <<>>
                THEN /\ exc' = <<"index 0 is out of bounds">>
                     /\ pc' = "Except"
                     /\ UNCHANGED <<prediction, screen, everPredictionError>>
             ELSE /\ prediction' = <<FirstOf(res.labels)>>
                  /\ screen' = Append(screen,
                        Drawn("success", <<"Predicted Risk Level:", prediction'[1]>>, <<>>))
                  /\ pc' = "Map"
                  /\ UNCHANGED <<exc, everPredictionError>>
    /\ UNCHANGED <<disk, submitted, widgets, risk_index, damage_scale, input_features,
                   map_object, outcome, unhandled, saves, notFound, fileOwner>>

\* Lines 73-109: folium.Map, the marker, the five circles; any of them may raise.
BuildMap ==
    /\ pc = "Map"
    /\ screen' = Append(screen, Drawn("header", <<"Visualize Location on Risk Map">>, <<>>))
    /\ \/ /\ map_object' =
                << RenderMap(latitude, longitude, prediction[1], damage_scale) >>
          /\ pc' = "Save"
          /\ UNCHANGED exc
       \/ /\ exc' = <<"map rendering failed">>
          /\ pc' = "Except"
          /\ UNCHANGED map_object
    /\ UNCHANGED <<disk, submitted, widgets, risk_index, damage_scale, input_features,
                   prediction, outcome, unhandled, runLog, notFound,
                   everPredictionError, fileOwner>>

\* Lines 112-113: map_object.save("disaster_risk_map.html").
SaveMap ==
    /\ pc = "Save"
    /\ saves' = saves + 1
    /\ \E res \in SaveResults :
          /\ mapFile' = SavedFile(mapFile, map_object[1], res)
          /\ fileOwner' = IF res = "open failed" THEN fileOwner ELSE "Pending"
          /\ IF res = "written"
                THEN /\ pc' = "Show"
                     /\ UNCHANGED exc
                ELSE /\ exc' = <<res>>
                     /\ pc' = "Except"
    /\ UNCHANGED <<modelFile, cache, submitted, widgets, risk_index, damage_scale,
                   input_features, prediction, map_object, screen, outcome, unhandled,
                   predictLog, predictOut, notFound, everPredictionError>>

\* Line 116: folium_static(map_object), the last statement of the try block.
DisplayMap ==
    /\ pc = "Show"
    /\ \/ /\ screen' = Append(screen, Drawn("folium_static", <<>>, map_object))
          /\ outcome' = "Succeeded"
          /\ fileOwner' = IF fileOwner = "Pending" THEN "Succeeded" ELSE fileOwner
          /\ pc' = "FullMap"
          /\ UNCHANGED exc
       \/ /\ exc' = <<"display failed">>
          /\ pc' = "Except"
          /\ UNCHANGED <<screen, outcome, fileOwner>>
    /\ UNCHANGED <<disk, submitted, widgets, risk_index, damage_scale, input_features,
                   prediction, map_object, unhandled, runLog, notFound,
                   everPredictionError>>

\* HandleException with a fixed text in place of str(e).
HandleExceptionNoMessage ==
    /\ pc = "Except"
    /\ screen' = Append(screen, Drawn("error", <<"Prediction failed:", "">>, <<>>))
    /\ outcome' = "Failed"
    /\ fileOwner' = IF fileOwner = "Pending" THEN "Failed" ELSE fileOwner
    /\ pc' = "FullMap"
    /\ UNCHANGED <<disk, widgets, locals, unhandled, runLog, notFound,
                   everPredictionError>>

\* HandleException that ends the process after showing the error.
HandleExceptionExits ==
    /\ pc = "Except"
    /\ screen' = Append(screen, Drawn("error", <<"Prediction failed:", exc[1]>>, <<>>))
    /\ outcome' = "Failed"
    /\ fileOwner' = IF fileOwner = "Pending" THEN "Failed" ELSE fileOwner
    /\ pc' = "Exited"
    /\ UNCHANGED <<disk, widgets, locals, unhandled, runLog, notFound,
                   everPredictionError>>

\* Lines 118-119: except Exception as e: st.error(f"Prediction failed: {str(e)}").
HandleException ==
    /\ pc = "Except"
    /\ screen' = Append(screen, Drawn("error", <<"Prediction failed:", exc[1]>>, <<>>))
    /\ outcome' = "Failed"
    /\ fileOwner' = IF fileOwner = "Pending" THEN "Failed" ELSE fileOwner
    /\ pc' = "FullMap"
    /\ UNCHANGED <<disk, widgets, locals, unhandled, runLog, notFound,
                   everPredictionError>>

\* Lines 124-130: the secondary display, then the end of the script.  open() and
\* read() are outside every try block.
FullRiskMap ==
    /\ pc = "FullMap"
    /\ IF mapFile.exists
          THEN \/ /\ screen' = Append(Append(screen,
                        Drawn("subheader", <<"View Full Risk Map">>, <<>>)),
                        Drawn("html", <<>>, mapFile.html))
                  /\ UNCHANGED unhandled
               \/ /\ screen' = Append(screen,
                        Drawn("subheader", <<"View Full Risk Map">>, <<>>))
                  /\ unhandled' = TRUE
          ELSE /\ screen' = Append(Append(screen,
                     Drawn("subheader", <<"View Full Risk Map">>, <<>>)),
                     Drawn("warning", <<"Full map file not found">>, <<>>))
               /\ UNCHANGED unhandled
    /\ EndRun
    /\ UNCHANGED <<disk, widgets, outcome, notFound, everPredictionError, fileOwner>>

\* The model artifact is owned by an external training process, which may put it
\* in place, replace it or remove it.  The script looks at the file only in
\* load_model, the first step of a run, so a change during a run is the same as
\* one made just after it.
ModelFileChanges ==
    /\ pc = "Idle"
    /\ \E f \in {"absent", "valid", "corrupt"} \ {modelFile} : modelFile' = f
    /\ UNCHANGED <<mapFile, cache, pc, widgets, locals, screen, outcome, unhandled,
                   runLog, notFound, everPredictionError, fileOwner>>

----
\* The process has just started: nothing cached, nothing drawn, no map file yet,
\* the widgets at their defaults (lines 42-49).
Init ==
    /\ modelFile \in {"absent", "valid", "corrupt"}
    /\ mapFile = NoFile
    /\ cache = "empty"
    /\ pc = "Idle"
    /\ submitted = FALSE
    /\ disaster_score = DefaultInput.disaster_score
    /\ pop_density = DefaultInput.pop_density
    /\ urban_level = DefaultInput.urban_level
    /\ houses_affected = DefaultInput.houses_affected
    /\ deaths = DefaultInput.deaths
    /\ latitude = DefaultInput.latitude
    /\ longitude = DefaultInput.longitude
    /\ risk_index = 0
    /\ damage_scale = 0
    /\ input_features = <<>>
    /\ prediction = <<>>
    /\ map_object = <<>>
    /\ exc = <<>>
    /\ screen = <<>>
    /\ outcome = "None"
    /\ unhandled = FALSE
    /\ predictLog = <<>>
    /\ predictOut = <<>>
    /\ saves = 0
    /\ notFound = FALSE
    /\ everPredictionError = FALSE
    /\ fileOwner = "None"

\* The steps that continue a script run already started.
RunStep ==
    \/ InputForm
    \/ FeatureEngineering
    \/ Predict
    \/ BuildMap
    \/ SaveMap
    \/ DisplayMap
    \/ HandleException
    \/ FullRiskMap

Next == LoadModel \/ RunStep \/ ModelFileChanges

Spec == Init /\ [][Next]_vars

\* A started script run executes to its end: it is synchronous, single-threaded
\* code with no waits.  When a run starts is the user's choice.
FairSpec == Spec /\ WF_vars(RunStep)

\* The feature formulas on the whole grid: the state at line 56 of a submitted
\* run, for every grid input.
FeatInit ==
    /\ modelFile = "valid"
    /\ mapFile = NoFile
    /\ cache = "model"
    /\ pc = "Features"
    /\ submitted = TRUE
    /\ \E inp \in GridInputs :
          /\ disaster_score = inp.disaster_score
          /\ pop_density = inp.pop_density
          /\ urban_level = inp.urban_level
          /\ houses_affected = inp.houses_affected
          /\ deaths = inp.deaths
          /\ latitude = inp.latitude
          /\ longitude = inp.longitude
    /\ risk_index = 0
    /\ damage_scale = 0
    /\ input_features = <<>>
    /\ prediction = <<>>
    /\ map_object = <<>>
    /\ exc = <<>>
    /\ screen = << Drawn("title", <<"Disaster-Prone Area Classification App">>, <<>>),
                   Drawn("form", <<"Enter Region Data">>, <<>>) >>
    /\ outcome = "None"
    /\ unhandled = FALSE
    /\ predictLog = <<>>
    /\ predictOut = <<>>
    /\ saves = 0
    /\ notFound = FALSE
    /\ everPredictionError = FALSE
    /\ fileOwner = "None"

FeatSpec == FeatInit /\ [][FeatureEngineering]_vars

----
\* Properties of the script.

PredictRaised == predictOut # <<>> /\ predictOut[1].raised

RECURSIVE DigitsValue(_)
DigitsValue(d) ==
    IF d = <<>> THEN 0 ELSE 10 * DigitsValue(SubSeq(d, 1, Len(d) - 1)) + d[Len(d)]

ExpectedOverlays ==
    { <<"Bihar", <<259, 851>>>>, <<"Assam", <<262, 917>>>>, <<"Odisha", <<209, 851>>>>,
      <<"Uttarakhand", <<301, 793>>>>, <<"Tamil Nadu", <<111, 787>>>> }

MapWellFormed(m) ==
    /\ Len(m.markers) = 1
    /\ m.markers[1].location = m.location
    /\ Len(m.circles) = 5
    /\ {<<m.circles[i].popup[2], m.circles[i].location>> : i \in 1..Len(m.circles)}
          = ExpectedOverlays

\* Every map the state holds: the script's, the file's, those on the page.
MapsHeld ==
    {map_object[i] : i \in 1..Len(map_object)}
    \cup {mapFile.html[i] : i \in 1..Len(mapFile.html)}
    \cup UNION {{screen[i].content[j] : j \in 1..Len(screen[i].content)} :
                  i \in 1..Len(screen)}

\* C1: in a run whose model.predict call raised, the except block reports
\* "Prediction failed" with the message predict raised, and the run builds no map
\* object, draws no header or primary map, and never calls map_object.save.
C1_NoMapAfterPredictRaises ==
    PredictRaised =>
        /\ pc \in {"Except", "FullMap"}
        /\ exc = <<predictOut[1].msg>>
        /\ prediction = <<>>
        /\ map_object = <<>>
        /\ saves = 0
        /\ fileOwner # "Pending"
        /\ ~Shows("header")
        /\ ~Shows("folium_static")
        /\ pc = "FullMap" =>
              /\ outcome = "Failed"
              /\ screen[Len(screen)] =
                    Drawn("error", <<"Prediction failed:", predictOut[1].msg>>, <<>>)

\* C1 witness: predict raised, the error is on the page, and a map file written by
\* an earlier run is still on disk.
C1_Witness ==
    /\ PredictRaised
    /\ pc = "FullMap"
    /\ outcome = "Failed"
    /\ mapFile.exists

\* C2: once "Model file not found" has been shown, every state is a halted one:
\* no run gets past line 32, so the form is not processed, model.predict is not
\* called and nothing of the map stage runs, whatever happens to the file later.
C2_HaltedAfterModelNotFound ==
    /\ cache = "none" => notFound
    /\ notFound =>
          /\ pc = "Idle"
          /\ ~submitted
          /\ predictLog = <<>>
          /\ predictOut = <<>>
          /\ ~everPredictionError
          /\ map_object = <<>>
          /\ saves = 0
          /\ ~mapFile.exists
          /\ outcome = "None"
          /\ ~Shows("form")
          /\ screen[Len(screen)] = Drawn("error", <<"Model file not found">>, <<>>)

\* C2 witness: the error has been shown and a valid artifact has since appeared.
C2_Witness ==
    /\ notFound
    /\ modelFile = "valid"
    /\ Shows("error")

\* C3: after feature engineering risk_index (thousandths) and damage_scale are the
\* exact linear combinations of the five fields, at every minimum, default and
\* maximum; latitude and longitude do not enter.
C3_DerivedFeatures ==
    pc = "Predict" =>
        /\ risk_index = 500 * disaster_score + 300 * pop_density + 2 * urban_level
        /\ damage_scale = houses_affected + 10 * deaths
        /\ (disaster_score = 5 /\ pop_density = 5000 /\ urban_level = 50)
              => risk_index = 1502600
        /\ (houses_affected = 100 /\ deaths = 10) => damage_scale = 200
        /\ (disaster_score = 10 /\ pop_density = 20000 /\ urban_level = 100)
              => risk_index = 6005200
        /\ (houses_affected = 10000 /\ deaths = 1000) => damage_scale = 20000

\* C3 witness: the example's five fields at a location other than the default.
C3_Witness ==
    /\ pc = "Predict"
    /\ risk_index = 1502600
    /\ damage_scale = 200
    /\ latitude = 400
    /\ longitude = 650

\* C4: a submitted run calls model.predict exactly once, with one row, the row
\* being (disaster_score, pop_density, urban_level, houses_affected, deaths,
\* risk_index, damage_scale) of this run; the label shown and put on the marker
\* is the first element of what the call returned.
C4_PredictOnceWithFeatureRow ==
    /\ Len(predictLog) = Len(predictOut)
    /\ pc \in {"Idle", "Form", "Features", "Predict"} => predictLog = <<>>
    /\ pc \in {"Map", "Save", "Show", "Except", "FullMap"} => Len(predictLog) = 1
    /\ \A i \in 1..Len(predictLog) :
          /\ Len(predictLog[i]) = 1
          /\ predictLog[i][1] =
                <<disaster_score, pop_density, urban_level, houses_affected, deaths,
                  500 * disaster_score + 300 * pop_density + 2 * urban_level,
                  houses_affected + 10 * deaths>>
    /\ prediction # <<>> =>
          /\ prediction[1] = Head(predictOut[1].labels)
          /\ \E i \in 1..Len(screen) :
                /\ screen[i].kind = "success"
                /\ screen[i].text[2] = Head(predictOut[1].labels)
    /\ map_object # <<>> =>
          map_object[1].markers[1].popup[2] = Head(predictOut[1].labels)

\* C4 witness: the model returned two labels and the run went on with the first.
C4_Witness ==
    /\ pc = "FullMap"
    /\ outcome = "Succeeded"
    /\ predictOut[1].labels = <<"Medium", "High">>
    /\ prediction = <<"Medium">>

\* C5: the marker's icon is red for "High", orange for "Medium" and green for any
\* other label; its popup carries the run's label and the decimal text of the
\* run's damage_scale ("High" with 200 gives red and "200").
C5_MarkerIconAndPopup ==
    map_object # <<>> =>
        LET mk == map_object[1].markers[1]
            p == prediction[1]
        IN  /\ p = "High" => mk.icon.color = "red"
            /\ p = "Medium" => mk.icon.color = "orange"
            /\ p \notin {"High", "Medium"} => mk.icon.color = "green"
            /\ mk.popup[2] = p
            /\ DigitsValue(mk.popup[4]) = houses_affected + 10 * deaths
            /\ Len(mk.popup[4]) > 1 => mk.popup[4][1] # 0
            /\ (p = "High" /\ damage_scale = 200)
                  => (mk.icon.color = "red" /\ mk.popup[4] = <<2, 0, 0>>)

\* C5 witness: the example, "High" with damage_scale 200, drawn and displayed.
C5_Witness ==
    /\ pc = "FullMap"
    /\ outcome = "Succeeded"
    /\ prediction = <<"High">>
    /\ damage_scale = 200
    /\ map_object[1].markers[1].icon.color = "red"
    /\ map_object[1].markers[1].popup[4] = <<2, 0, 0>>

\* C6: every map built, saved or displayed has exactly one marker, at the map's
\* own location, and exactly the five fixed overlays; the script's map is at the
\* submitted latitude and longitude; all maps carry the same overlays.
C6_OneMarkerFiveOverlays ==
    /\ \A m \in MapsHeld : MapWellFormed(m)
    /\ \A m1, m2 \in MapsHeld : m1.circles = m2.circles
    /\ map_object # <<>> =>
          map_object[1].markers[1].location = <<latitude, longitude>>

\* C6 witness: a map centred on Bihar's own coordinates with a label other than
\* "High", while the file holds an earlier map of another place.
C6_Witness ==
    /\ map_object # <<>>
    /\ latitude = 259
    /\ longitude = 851
    /\ prediction = <<"Low">>
    /\ mapFile.html # <<>>
    /\ mapFile.html[1].location # map_object[1].location

\* C7 (as claimed): no run ends with an exception the script did not catch.
C7_NoUnhandledFault == ~unhandled

\* C8 (as claimed): a submitted run that has left the try/except block is
\* Succeeded or Failed; Succeeded shows the label and the map and no error,
\* Failed shows the error and none of the success output.
C8_ExactlyOneOutcome ==
    LET ended == pc = "FullMap" \/ (pc = "Idle" /\ outcome # "None")
    IN  /\ pc = "FullMap" => outcome \in {"Succeeded", "Failed"}
        /\ (ended /\ outcome = "Succeeded")
              => (Shows("success") /\ Shows("folium_static") /\ ~Shows("error"))
        /\ (ended /\ outcome = "Failed")
              => (Shows("error") /\ ~Shows("success") /\ ~Shows("folium_static"))

\* C9: with the model loaded the controller always has a next step and the model
\* stays loaded; a run calls predict at most once (no retry); and every
\* submitted run reaches Succeeded or Failed and returns to Idle.
C9_ControllerKeepsServing ==
    /\ [](cache = "model" => ENABLED (LoadModel \/ RunStep))
    /\ [](Len(predictLog) <= 1)
    /\ [][cache = "model" => cache' = "model"]_vars
    /\ (cache = "model" /\ submitted)
          ~> (pc = "Idle" /\ outcome \in {"Succeeded", "Failed"})

\* C9 witness: predict raised in an earlier run, and this run predicted, rendered
\* and ended Succeeded.
C9_Witness ==
    /\ everPredictionError
    /\ pc = "FullMap"
    /\ outcome = "Succeeded"
    /\ Shows("folium_static")

====
